---- MODULE Spec2Model ----
(***************************************************************************)
(* Model of github-tree-print (src/main.rs): one run of main, from the     *)
(* command line to the output sink.  Strings the program takes apart or    *)
(* builds (repo_name, entry paths, the rendered text) are sequences of     *)
(* one-character strings; strings it only compares or passes on (tokens,   *)
(* the branch name, the entry type, the output path) are atomic.           *)
(***************************************************************************)
EXTENDS Integers, Sequences, FiniteSets, TLC

\* ---- bounds of the model ----
MaxLen == 3          \* longest repo_name argument
MaxEntries == 2      \* most entries in a tree response

\* ---- value sets the inputs are drawn from ----
NONE == "<none>"                         \* Option::None
Chars == {"a", "/"}                      \* characters of repo_name
NL == "\n"
Paths == {<<>>, <<"a">>, <<"a", NL>>}    \* entry paths: empty, plain, with a newline
Kinds == {"tree", "blob", "", "Tree"}    \* entry type strings
FlagTokens == {NONE, "tf"}               \* --token
EnvTokens == {NONE, "te"}                \* GITHUB_TOKEN as env::var reads it, .env merged in
OutputFiles == {NONE, "out.txt"}         \* --output-file
Branches == {NONE, "main"}               \* default_branch of a decoded RepoInfo
Statuses == {200, 404}                   \* HTTP status of a response

SeqsUpTo(S, n) == UNION {[1..k -> S] : k \in 0..n}

RepoNames == SeqsUpTo(Chars, MaxLen)
\* every kind with a plain path, and the two known kinds with every path
TreeEntries ==
    [path : {<<"a">>}, type_field : Kinds] \cup [path : Paths, type_field : {"tree", "blob"}]
Trees == SeqsUpTo(TreeEntries, MaxEntries)

\* A response to the metadata request: whether send() returned Ok, the status
\* line, whether the body deserializes into RepoInfo, and the decoded field.
NoRepoResp == [transport |-> "none", status |-> 0, valid |-> FALSE, default_branch |-> NONE]
RepoResponses ==
    {[transport |-> "err", status |-> 0, valid |-> FALSE, default_branch |-> NONE]}
    \cup {[transport |-> "ok", status |-> s, valid |-> FALSE, default_branch |-> NONE] : s \in Statuses}
    \cup [transport : {"ok"}, status : Statuses, valid : {TRUE}, default_branch : Branches]

\* A response to the tree request; a non-2xx answer carries an undecodable
\* body or an empty tree, a 200 answer any body.
NoTreeResp == [transport |-> "none", status |-> 0, valid |-> FALSE, tree |-> <<>>]
TreeResponses ==
    {[transport |-> "err", status |-> 0, valid |-> FALSE, tree |-> <<>>]}
    \cup {[transport |-> "ok", status |-> s, valid |-> FALSE, tree |-> <<>>] : s \in Statuses}
    \cup {[transport |-> "ok", status |-> 404, valid |-> TRUE, tree |-> <<>>]}
    \cup [transport : {"ok"}, status : {200}, valid : {TRUE}, tree : Trees]

Is2xx(status) == status >= 200 /\ status < 300

VARIABLES
    pc,              \* position of main
    stages,          \* the pipeline stages entered so far, in order
    repo_name,       \* args.repo_name
    token,           \* args.token
    env_token,       \* GITHUB_TOKEN of the environment once dotenv() has run
    output_file,     \* args.output_file
    github_token,    \* the resolved token
    owner, repo,     \* result of parse_repo_name
    requests,        \* the HTTP requests issued, in order
    repo_resp,       \* the response to the metadata request
    default_branch,  \* the resolved branch
    tree_resp,       \* the response to the tree request
    tree,            \* tree_response.tree
    tree_formatted,  \* result of format_tree
    file_created,    \* the output file was created or truncated
    file_content,    \* bytes written to the output file
    stdout,          \* bytes written to standard output
    error            \* the error the run ended with, "" when none

vars == <<pc, stages, repo_name, token, env_token, output_file,
          github_token, owner, repo, requests, repo_resp, default_branch,
          tree_resp, tree, tree_formatted, file_created, file_content, stdout, error>>

inputs == <<repo_name, token, env_token, output_file>>

\* ---- pure functions ----

ResolveGithubTokenEnvFirst(flag, env) == IF env # NONE THEN env ELSE flag

\* args.token.or_else(|| env::var("GITHUB_TOKEN").ok())
ResolveGithubToken(flag, env) == IF flag # NONE THEN flag ELSE env

RECURSIVE SplitLoop(_, _, _)
SplitLoop(s, cur, parts) ==
    IF s = <<>> THEN Append(parts, cur)
    ELSE IF Head(s) = "/" THEN SplitLoop(Tail(s), <<>>, Append(parts, cur))
    ELSE SplitLoop(Tail(s), Append(cur, Head(s)), parts)

\* repo_name.split('/').collect()
Split(s) == SplitLoop(s, <<>>, <<>>)

parse_repo_name_lenient(name) ==
    LET parts == Split(name) IN
    IF Len(parts) >= 2
    THEN [ok |-> TRUE, owner |-> parts[1], repo |-> parts[2]]
    ELSE [ok |-> FALSE, owner |-> <<>>, repo |-> <<>>]

parse_repo_name(name) ==
    LET parts == Split(name) IN
    IF Len(parts) = 2
    THEN [ok |-> TRUE, owner |-> parts[1], repo |-> parts[2]]
    ELSE [ok |-> FALSE, owner |-> <<>>, repo |-> <<>>]

DefaultBranchOrMain(info) ==
    IF info.default_branch = NONE
    THEN [ok |-> TRUE, branch |-> "main"]
    ELSE [ok |-> TRUE, branch |-> info.default_branch]

\* repo_info.default_branch.ok_or("Default branch not found")
DefaultBranchOrErr(info) ==
    IF info.default_branch = NONE
    THEN [ok |-> FALSE, branch |-> NONE]
    ELSE [ok |-> TRUE, branch |-> info.default_branch]

DIR == <<"D", "I", "R">>
FILE == <<"F", "I", "L", "E">>
UNK == <<"U", "N", "K">>

LeftIgnoringCase(type_field) ==
    IF type_field \in {"tree", "Tree"} THEN DIR
    ELSE IF type_field = "blob" THEN FILE
    ELSE UNK

\* match entry.type_field.as_str() { "tree" => "DIR", "blob" => "FILE", _ => "UNK" }
Left(type_field) ==
    CASE type_field = "tree" -> DIR
      [] type_field = "blob" -> FILE
      [] OTHER -> UNK

FormatEntrySkippingEmpty(entry) ==
    IF entry.path = <<>> THEN <<>>
    ELSE Left(entry.type_field) \o <<" ">> \o entry.path \o <<NL>>

\* format!("{:<} {}\n", left, entry.path)
FormatEntry(entry) == Left(entry.type_field) \o <<" ">> \o entry.path \o <<NL>>

RECURSIVE format_tree_loop(_, _)
format_tree_loop(rest, output) ==
    IF rest = <<>> THEN output
    ELSE format_tree_loop(Tail(rest), output \o FormatEntry(Head(rest)))

RECURSIVE format_tree_prepending(_)
format_tree_prepending(t) ==
    IF t = <<>> THEN <<>>
    ELSE format_tree_prepending(Tail(t)) \o FormatEntry(Head(t))

format_tree(t) == format_tree_loop(t, <<>>)

\* ---- the run ----

Init ==
    /\ pc = "Startup"
    /\ stages = <<>>
    /\ repo_name \in RepoNames
    /\ token \in FlagTokens
    /\ env_token \in EnvTokens
    /\ output_file \in OutputFiles
    /\ github_token = NONE
    /\ owner = <<>>
    /\ repo = <<>>
    /\ requests = <<>>
    /\ repo_resp = NoRepoResp
    /\ default_branch = NONE
    /\ tree_resp = NoTreeResp
    /\ tree = <<>>
    /\ tree_formatted = <<>>
    /\ file_created = FALSE
    /\ file_content = <<>>
    /\ stdout = <<>>
    /\ error = ""

Enter(stage) ==
    /\ pc' = stage
    /\ stages' = Append(stages, stage)

Fail(kind) ==
    /\ Enter("Failed")
    /\ error' = kind

\* main, lines 30-37: with .env merged into the environment and the arguments
\* parsed, resolve the token; the expect() panics when neither source holds one.
ResolveToken ==
    /\ pc = "Startup"
    /\ LET t == ResolveGithubToken(token, env_token) IN
       IF t = NONE
       THEN /\ Fail("MissingCredential")
            /\ UNCHANGED github_token
       ELSE /\ Enter("Parsing")
            /\ github_token' = t
            /\ UNCHANGED error
    /\ UNCHANGED <<inputs, owner, repo, requests, repo_resp, default_branch,
                   tree_resp, tree, tree_formatted, file_created, file_content, stdout>>

\* main, line 39
ParseRepoName ==
    /\ pc = "Parsing"
    /\ LET r == parse_repo_name(repo_name) IN
       IF r.ok
       THEN /\ Enter("ResolvingBranch")
            /\ owner' = r.owner
            /\ repo' = r.repo
            /\ UNCHANGED error
       ELSE /\ Fail("MalformedIdentifier")
            /\ UNCHANGED <<owner, repo>>
    /\ UNCHANGED <<inputs, github_token, requests, repo_resp, default_branch,
                   tree_resp, tree, tree_formatted, file_created, file_content, stdout>>

\* main, lines 45-53: GET the repository, decode RepoInfo, take default_branch.
\* send() fails on a transport error only; json() decodes whatever body came.
ResolveDefaultBranch ==
    /\ pc = "ResolvingBranch"
    /\ \E resp \in RepoResponses :
        /\ requests' = Append(requests,
               [kind |-> "repo", owner |-> owner, repo |-> repo, branch |-> NONE,
                authorization |-> github_token])
        /\ repo_resp' = resp
        /\ IF resp.transport # "ok"
           THEN Fail("RequestFailed") /\ UNCHANGED default_branch
           ELSE IF ~resp.valid
           THEN Fail("DecodeFailed") /\ UNCHANGED default_branch
           ELSE LET b == DefaultBranchOrErr(resp) IN
                IF b.ok
                THEN /\ Enter("FetchingTree")
                     /\ default_branch' = b.branch
                     /\ UNCHANGED error
                ELSE Fail("MissingDefaultBranch") /\ UNCHANGED default_branch
    /\ UNCHANGED <<inputs, github_token, owner, repo, tree_resp, tree,
                   tree_formatted, file_created, file_content, stdout>>

\* main, lines 56-65: GET the recursive tree of the branch, decode GitTreeResponse.
FetchTree ==
    /\ pc = "FetchingTree"
    /\ \E resp \in TreeResponses :
        /\ requests' = Append(requests,
               [kind |-> "tree", owner |-> owner, repo |-> repo, branch |-> default_branch,
                authorization |-> github_token])
        /\ tree_resp' = resp
        /\ IF resp.transport # "ok"
           THEN Fail("RequestFailed") /\ UNCHANGED tree
           ELSE IF ~resp.valid
           THEN Fail("DecodeFailed") /\ UNCHANGED tree
           ELSE /\ Enter("Rendering")
                /\ tree' = resp.tree
                /\ UNCHANGED error
    /\ UNCHANGED <<inputs, github_token, owner, repo, repo_resp, default_branch,
                   tree_formatted, file_created, file_content, stdout>>

\* main, line 67
Render ==
    /\ pc = "Rendering"
    /\ tree_formatted' = format_tree(tree)
    /\ Enter("Writing")
    /\ UNCHANGED <<inputs, github_token, owner, repo, requests, repo_resp,
                   default_branch, tree_resp, tree, file_created, file_content,
                   stdout, error>>

\* main, lines 68-75: File::create + write! into the file, or println! on stdout.
WriteOutput ==
    /\ pc = "Writing"
    /\ \E io \in {"ok", "create_fails", "write_fails"} :
        IF output_file # NONE
        THEN CASE io = "create_fails" ->
                    /\ Fail("OutputWriteFailed")
                    /\ UNCHANGED <<file_created, file_content, stdout>>
               [] io = "write_fails" ->
                    /\ Fail("OutputWriteFailed")
                    /\ file_created' = TRUE
                    /\ file_content' = <<>>
                    /\ UNCHANGED stdout
               [] OTHER ->
                    /\ Enter("Done")
                    /\ file_created' = TRUE
                    /\ file_content' = tree_formatted
                    /\ UNCHANGED <<stdout, error>>
        ELSE IF io = "ok"
             THEN /\ Enter("Done")
                  /\ stdout' = stdout \o tree_formatted \o <<NL>>
                  /\ UNCHANGED <<file_created, file_content, error>>
             ELSE /\ Fail("OutputWriteFailed")
                  /\ UNCHANGED <<file_created, file_content, stdout>>
    /\ UNCHANGED <<inputs, github_token, owner, repo, requests, repo_resp,
                   default_branch, tree_resp, tree, tree_formatted>>

Next ==
    \/ ResolveToken
    \/ ParseRepoName
    \/ ResolveDefaultBranch
    \/ FetchTree
    \/ Render
    \/ WriteOutput

Spec == Init /\ [][Next]_vars

\* ---- helpers of the properties ----

Entered(stage) == \E i \in 1..Len(stages) : stages[i] = stage

RECURSIVE Count(_, _)
Count(s, c) == IF s = <<>> THEN 0 ELSE (IF Head(s) = c THEN 1 ELSE 0) + Count(Tail(s), c)

TokenAvailable == token # NONE \/ env_token # NONE

\* parse_repo_name has run
Parsed == Entered("ResolvingBranch") \/ error = "MalformedIdentifier"

\* format_tree has run
Rendered == Entered("Writing")

NothingWritten == ~file_created /\ file_content = <<>> /\ stdout = <<>>

\* ---- C1 ----
\* C1: parse_repo_name succeeds exactly when repo_name holds exactly one '/'
\* with a non-empty text on both sides, and then returns the two sides; every
\* other repo_name ("/repo", "owner/", "/", no '/', several '/') ends the run
\* with MalformedIdentifier.
C1_ParseContract ==
    Parsed =>
        LET wellFormed == /\ Count(repo_name, "/") = 1
                          /\ Head(repo_name) # "/"
                          /\ repo_name[Len(repo_name)] # "/"
        IN /\ Entered("ResolvingBranch") <=> wellFormed
           /\ error = "MalformedIdentifier" <=> ~wellFormed
           /\ wellFormed => owner \o <<"/">> \o repo = repo_name

\* ---- C2 ----
RECURSIVE C2_Start(_)
C2_Start(i) ==
    IF i = 1 THEN 0
    ELSE LET e == tree[i - 1]
             n == IF e.type_field = "tree" THEN 3 ELSE IF e.type_field = "blob" THEN 4 ELSE 3
         IN C2_Start(i - 1) + n + 1 + Len(e.path) + 1

RECURSIVE PathNewlines(_)
PathNewlines(t) == IF t = <<>> THEN 0 ELSE Count(Head(t).path, NL) + PathNewlines(Tail(t))

\* C3 as stated: the rendered text has as many newline-terminated lines as
\* the tree has entries, also when a path holds a newline.
C3_LineCountOriginal == Rendered => Count(tree_formatted, NL) = Len(tree)

\* C3: the rendered text has one newline per entry plus the newlines the
\* paths themselves hold; with no newline in any path the number of lines is
\* the number of entries.
C3_LineCount ==
    Rendered =>
        /\ Count(tree_formatted, NL) = Len(tree) + PathNewlines(tree)
        /\ PathNewlines(tree) = 0 => Count(tree_formatted, NL) = Len(tree)

C3_Witness ==
    /\ Rendered
    /\ Len(tree) = 2
    /\ tree[1].path = <<>>
    /\ Count(tree[2].path, NL) = 1
    /\ Count(tree_formatted, NL) = 3

\* ---- C4 ----
RECURSIVE C4_Offset(_)
C4_Offset(i) == IF i = 1 THEN 0 ELSE C4_Offset(i - 1) + Len(FormatEntry(tree[i - 1]))

\* C4: the rendered text is the renderings of the entries laid end to end in
\* input order: the i-th piece is the rendering of the i-th entry, and there
\* is nothing else (duplicates stay, nothing is dropped or moved).
C4_OrderPreserved ==
    Rendered =>
        /\ Len(tree_formatted) = C4_Offset(Len(tree) + 1)
        /\ \A i \in 1..Len(tree) :
               SubSeq(tree_formatted, C4_Offset(i) + 1, C4_Offset(i + 1)) = FormatEntry(tree[i])

C4_Witness ==
    /\ Rendered
    /\ Len(tree) = 2
    /\ tree[1] = [path |-> <<"a">>, type_field |-> "blob"]
    /\ tree[2] = [path |-> <<>>, type_field |-> "tree"]

\* ---- C5 ----
\* C5: the token is resolved once, --token first and GITHUB_TOKEN second;
\* every request carries it; with no token from either the run ends with
\* MissingCredential and no request was made.
C5_TokenResolution ==
    pc # "Startup" =>
        /\ token # NONE => github_token = token
        /\ (token = NONE /\ env_token # NONE) => github_token = env_token
        /\ ~TokenAvailable =>
               pc = "Failed" /\ error = "MissingCredential" /\ requests = <<>>
        /\ error = "MissingCredential" => ~TokenAvailable
        /\ \A i \in 1..Len(requests) : requests[i].authorization = github_token

C5_Witness ==
    /\ token # NONE
    /\ env_token # NONE
    /\ Len(requests) = 2
    /\ requests[2].authorization = token

\* ---- C6 ----
Malformed == Len(Split(repo_name)) # 2

\* C6 as stated: a repo_name that does not split into two segments ends the
\* run with MalformedIdentifier and no request, token or no token.
C6_MalformedOriginal ==
    (Malformed /\ pc = "Failed") => (error = "MalformedIdentifier" /\ requests = <<>>)

\* C6: a repo_name that does not split into two segments never gets past
\* parsing and no request is issued; the run ends with MalformedIdentifier
\* when a token is available and with MissingCredential when none is.
C6_MalformedBeforeNetwork ==
    Malformed =>
        /\ pc \in {"Startup", "Parsing", "Failed"}
        /\ requests = <<>>
        /\ pc = "Failed" =>
               error = IF TokenAvailable THEN "MalformedIdentifier" ELSE "MissingCredential"

C6_Witness ==
    /\ Malformed
    /\ pc = "Failed"
    /\ error = "MalformedIdentifier"
    /\ Count(repo_name, "/") = 2

\* ---- C7 ----
\* C7: a non-2xx status on the metadata request ends the run with
\* RequestFailed, with no tree request and nothing written; a non-2xx status
\* on the tree request ends it with RequestFailed, nothing rendered or written.
C7_Non2xxIsRequestFailed ==
    /\ (repo_resp.transport = "ok" /\ ~Is2xx(repo_resp.status)) =>
           /\ pc = "Failed"
           /\ error = "RequestFailed"
           /\ Len(requests) = 1
           /\ NothingWritten
    /\ (tree_resp.transport = "ok" /\ ~Is2xx(tree_resp.status)) =>
           /\ pc = "Failed"
           /\ error = "RequestFailed"
           /\ ~Rendered
           /\ NothingWritten

\* ---- C8 ----
\* C8: a metadata response that decodes but holds no default_branch ends the
\* run with MissingDefaultBranch: one request only, no file created or
\* truncated, nothing on standard output.
C8_MissingDefaultBranch ==
    (repo_resp.transport = "ok" /\ repo_resp.valid /\ repo_resp.default_branch = NONE) =>
        /\ pc = "Failed"
        /\ error = "MissingDefaultBranch"
        /\ Len(requests) = 1
        /\ requests[1].kind = "repo"
        /\ NothingWritten

C8_Witness ==
    /\ repo_resp.transport = "ok"
    /\ repo_resp.valid
    /\ repo_resp.default_branch = NONE
    /\ output_file # NONE
    /\ pc = "Failed"

\* ---- C9 ----
\* C9: a successful run delivers exactly the rendered text to its sink: the
\* file holds format_tree's result, or standard output received that same
\* text with nothing added.
C9_SinkGetsRenderedText ==
    pc = "Done" =>
        IF output_file # NONE
        THEN file_created /\ file_content = tree_formatted /\ stdout = <<>>
        ELSE stdout = tree_formatted /\ ~file_created

\* ---- C10 ----
Pipeline == <<"Parsing", "ResolvingBranch", "FetchingTree", "Rendering", "Writing", "Done">>

IsPrefix(s, t) == Len(s) <= Len(t) /\ SubSeq(t, 1, Len(s)) = s

\* C10: the stages are entered in pipeline order, each at most once, with
\* Failed only as the last one; the tree request follows a metadata request
\* that succeeded and yielded the branch it names; a finished run made exactly
\* two requests, a failed one at most two and did nothing after failing.
C10_StrictPipeline ==
    /\ \/ IsPrefix(stages, Pipeline)
       \/ /\ stages # <<>>
          /\ stages[Len(stages)] = "Failed"
          /\ IsPrefix(SubSeq(stages, 1, Len(stages) - 1), Pipeline)
    /\ stages # <<>> => pc = stages[Len(stages)]
    /\ Len(requests) <= 2
    /\ Len(requests) >= 1 => requests[1].kind = "repo"
    /\ Len(requests) = 2 =>
           /\ requests[2].kind = "tree"
           /\ repo_resp.transport = "ok"
           /\ Is2xx(repo_resp.status)
           /\ repo_resp.valid
           /\ repo_resp.default_branch # NONE
           /\ requests[2].branch = repo_resp.default_branch
    /\ pc = "Done" => Len(requests) = 2 /\ error = ""
    /\ pc = "Failed" =>
           /\ error # ""
           /\ ~Entered("Done")
           /\ ~Entered("Writing") => NothingWritten /\ tree_formatted = <<>>
           /\ ~Entered("Rendering") => tree = <<>>
           /\ ~Entered("FetchingTree") => Len(requests) <= 1

====
